---------------------------- MODULE Spec2Model ----------------------------
(***************************************************************************)
(* A model of the productivity agent (src/agent.py): the JSON task store   *)
(* (load_tasks, save_tasks, add_task, complete_task, list_tasks), the      *)
(* keyword intent classifier, the ai_agent router and the call to the      *)
(* remote text-generation service.                                         *)
(*                                                                         *)
(* Python strings are sequences of characters; a character is a            *)
(* one-character TLA+ string, and the non-ASCII characters of the source   *)
(* are written by name: "<cross>", "<check>", "<hourglass>", "<emdash>",   *)
(* and "<sup2>" (SUPERSCRIPT TWO, a character for which str.isdigit() is   *)
(* true and int() raises ValueError).                                      *)
(***************************************************************************)
EXTENDS Integers, Sequences, FiniteSets, TLC

(***************************************************************************)
(* Bound of the model: add_task is not called on a collection that already *)
(* holds MaxTasks records.                                                 *)
(***************************************************************************)
MaxTasks == 2

(***************************************************************************)
(* String literals of the source and the user messages of the model.       *)
(***************************************************************************)
MsgAddBuyMilk ==
    <<"a", "d", "d", " ", "t", "a", "s", "k", " ", "b", "u", "y", " ", "m", "i", "l", "k">>

MsgNewTaskBuyMilk ==
    <<"n", "e", "w", " ", "t", "a", "s", "k", " ", "b", "u", "y", " ", "m", "i", "l", "k">>

MsgTodoCap == <<"T", "o", "d", "o">>

MsgTodo == <<"t", "o", "d", "o">>

MsgRememberTwoLines == <<"r", "e", "m", "e", "m", "b", "e", "r", " ", "a", "\n", "b">>

MsgDone1 == <<"d", "o", "n", "e", " ", "1">>

MsgComplete2 == <<"c", "o", "m", "p", "l", "e", "t", "e", " ", "2", " ", "1">>

MsgMarkComplete ==
    <<"m", "a", "r", "k", " ", "a", "s", " ", "c", "o", "m", "p", "l", "e", "t", "e">>

MsgDone7 == <<"d", "o", "n", "e", " ", "7">>

MsgDoneSup2 == <<"d", "o", "n", "e", " ", "<sup2>">>

MsgList == <<"l", "i", "s", "t">>

MsgHi == <<"h", "i">>

DescBuyMilk == <<"b", "u", "y", " ", "m", "i", "l", "k">>

KwAddTask == <<"a", "d", "d", " ", "t", "a", "s", "k">>

KwRemember == <<"r", "e", "m", "e", "m", "b", "e", "r">>

KwTodo == <<"t", "o", "d", "o">>

KwNewTask == <<"n", "e", "w", " ", "t", "a", "s", "k">>

KwComplete == <<"c", "o", "m", "p", "l", "e", "t", "e">>

KwDone == <<"d", "o", "n", "e">>

KwFinish == <<"f", "i", "n", "i", "s", "h">>

KwMarkAsComplete ==
    <<"m", "a", "r", "k", " ", "a", "s", " ", "c", "o", "m", "p", "l", "e", "t", "e">>

KwList == <<"l", "i", "s", "t">>

KwShowTasks == <<"s", "h", "o", "w", " ", "t", "a", "s", "k", "s">>

KwWhatAreMyTasks ==
    <<"w", "h", "a", "t", " ", "a", "r", "e", " ", "m", "y", " ", "t", "a", "s", "k", "s">>

MissingKeyMsg ==
    <<"<cross>", " ", "E", "R", "R", "O", "R", ":", " ", "M", "i", "s", "s", "i", "n", "g",
      " ", "G", "O", "O", "G", "L", "E", "_", "A", "P", "I", "_", "K", "E", "Y", " ", "i", "n",
      " ", ".", "e", "n", "v">>

ApiErrorPrefix ==
    <<"<cross>", " ", "G", "e", "m", "i", "n", "i", " ", "A", "P", "I", " ", "E", "r", "r",
      "o", "r", ":", " ">>

ParseErrorMsg ==
    <<"<cross>", " ", "E", "r", "r", "o", "r", ":", " ", "C", "o", "u", "l", "d", " ", "n",
      "o", "t", " ", "p", "a", "r", "s", "e", " ", "r", "e", "s", "p", "o", "n", "s", "e", " ",
      "f", "r", "o", "m", " ", "G", "e", "m", "i", "n", "i", ".">>

InternalErrorPrefix ==
    <<"A", "g", "e", "n", "t", " ", "e", "n", "c", "o", "u", "n", "t", "e", "r", "e", "d", " ",
      "a", "n", " ", "i", "n", "t", "e", "r", "n", "a", "l", " ", "e", "r", "r", "o", "r", ":",
      " ">>

ErrorMarker == <<"<cross>">>

TaskAddedPrefix == <<"T", "a", "s", "k", " ", "a", "d", "d", "e", "d", ":", " ">>

IdOpen == <<" ", "(", "I", "D", ":", " ">>

IdClose == <<")">>

NotNumberMsg ==
    <<"E", "r", "r", "o", "r", ":", " ", "T", "a", "s", "k", " ", "I", "D", " ", "m", "u", "s",
      "t", " ", "b", "e", " ", "a", " ", "n", "u", "m", "b", "e", "r", ".">>

MarkedPrefix == <<"M", "a", "r", "k", "e", "d", " ", "t", "a", "s", "k", " ">>

MarkedOpen == <<" ", "(", "'">>

MarkedClose ==
    <<"'", ")", " ", "a", "s", " ", "c", "o", "m", "p", "l", "e", "t", "e", "d", ".">>

TaskIdPrefix == <<"T", "a", "s", "k", " ", "I", "D", " ">>

NotFoundSuffix == <<" ", "n", "o", "t", " ", "f", "o", "u", "n", "d", ".">>

NoTasksMsg ==
    <<"Y", "o", "u", " ", "h", "a", "v", "e", " ", "n", "o", " ", "t", "a", "s", "k", "s", ".">>

ListHeader ==
    <<"H", "e", "r", "e", " ", "a", "r", "e", " ", "y", "o", "u", "r", " ", "t", "a", "s", "k",
      "s", ":", "\n">>

WhichTaskMsg ==
    <<"W", "h", "i", "c", "h", " ", "t", "a", "s", "k", " ", "n", "u", "m", "b", "e", "r", " ",
      "w", "o", "u", "l", "d", " ", "y", "o", "u", " ", "l", "i", "k", "e", " ", "t", "o", " ",
      "m", "a", "r", "k", " ", "a", "s", " ", "c", "o", "m", "p", "l", "e", "t", "e", "?">>

TextPending == <<"p", "e", "n", "d", "i", "n", "g">>

TextCompleted == <<"c", "o", "m", "p", "l", "e", "t", "e", "d">>

IconCompleted == <<"<check>">>

IconPending == <<"<hourglass>">>

ReplyText == <<"D", "o", "n", "e", "!">>

ErrorBody == <<"q", "u", "o", "t", "a">>

(***************************************************************************)
(* Python string operations.                                               *)
(***************************************************************************)
Whitespace == {" ", "\n", "\t"}

AsciiDigits == <<"0", "1", "2", "3", "4", "5", "6", "7", "8", "9">>

UpperLetters ==
    <<"A", "B", "C", "D", "E", "F", "G", "H", "I", "J", "K", "L", "M",
      "N", "O", "P", "Q", "R", "S", "T", "U", "V", "W", "X", "Y", "Z">>

LowerLetters ==
    <<"a", "b", "c", "d", "e", "f", "g", "h", "i", "j", "k", "l", "m",
      "n", "o", "p", "q", "r", "s", "t", "u", "v", "w", "x", "y", "z">>

IndexOf(seq, c) == CHOOSE i \in 1..Len(seq) : seq[i] = c

InSeq(seq, c) == \E i \in 1..Len(seq) : seq[i] = c

LowerChar(c) == IF InSeq(UpperLetters, c) THEN LowerLetters[IndexOf(UpperLetters, c)] ELSE c

UpperChar(c) == IF InSeq(LowerLetters, c) THEN UpperLetters[IndexOf(LowerLetters, c)] ELSE c

\* str.lower()
Lower(s) == [i \in 1..Len(s) |-> LowerChar(s[i])]

\* str.upper()
Upper(s) == [i \in 1..Len(s) |-> UpperChar(s[i])]

\* s[i-1:].startswith(t), i counted from 1
MatchesAt(s, t, i) ==
    /\ i + Len(t) - 1 <= Len(s)
    /\ \A k \in 1..Len(t) : s[i + k - 1] = t[k]

\* s.startswith(t)
StartsWith(s, t) == MatchesAt(s, t, 1)

\* t in s
Contains(s, t) == \E i \in 1..(Len(s) + 1) : MatchesAt(s, t, i)

\* s.replace(t, ""), t not empty: the occurrences of t are removed from left
\* to right, without overlap.
RECURSIVE Remove(_, _)
Remove(s, t) ==
    IF Len(s) < Len(t) THEN s
    ELSE IF MatchesAt(s, t, 1) THEN Remove(SubSeq(s, Len(t) + 1, Len(s)), t)
    ELSE <<Head(s)>> \o Remove(Tail(s), t)

RECURSIVE LStrip(_)
LStrip(s) == IF s # <<>> /\ Head(s) \in Whitespace THEN LStrip(Tail(s)) ELSE s

RECURSIVE RStrip(_)
RStrip(s) ==
    IF s # <<>> /\ s[Len(s)] \in Whitespace THEN RStrip(SubSeq(s, 1, Len(s) - 1)) ELSE s

\* str.strip()
Strip(s) == RStrip(LStrip(s))

\* str.split(): the maximal runs of characters that are not whitespace.
\* cur is the token being read, out the tokens read so far.
RECURSIVE SplitFrom(_, _, _)
SplitFrom(s, cur, out) ==
    IF s = <<>> THEN (IF cur = <<>> THEN out ELSE Append(out, cur))
    ELSE IF Head(s) \in Whitespace
         THEN SplitFrom(Tail(s), <<>>, IF cur = <<>> THEN out ELSE Append(out, cur))
         ELSE SplitFrom(Tail(s), Append(cur, Head(s)), out)

Split(s) == SplitFrom(s, <<>>, <<>>)

\* The characters c with c.isdigit(): the decimal digits, and digit
\* characters that are not decimal, of which "<sup2>" stands here.
IsDigitChar(c) == InSeq(AsciiDigits, c) \/ c = "<sup2>"

\* str.isdigit()
IsDigit(s) == s # <<>> /\ \A i \in 1..Len(s) : IsDigitChar(s[i])

\* int(s) succeeds on a string of decimal digits (surrounding whitespace
\* and signs do not occur in the tokens the model converts).
IntParses(s) == s # <<>> /\ \A i \in 1..Len(s) : InSeq(AsciiDigits, s[i])

RECURSIVE IntValue(_)
IntValue(s) ==
    IF s = <<>> THEN 0
    ELSE 10 * IntValue(SubSeq(s, 1, Len(s) - 1)) + (IndexOf(AsciiDigits, s[Len(s)]) - 1)

\* str(n) for n >= 0
RECURSIVE IntToStr(_)
IntToStr(n) ==
    IF n < 10 THEN <<AsciiDigits[n + 1]>>
    ELSE IntToStr(n \div 10) \o <<AsciiDigits[(n % 10) + 1]>>

\* The number of occurrences of the character c in s.
RECURSIVE CountChar(_, _)
CountChar(s, c) ==
    IF s = <<>> THEN 0 ELSE (IF Head(s) = c THEN 1 ELSE 0) + CountChar(Tail(s), c)

(***************************************************************************)
(* Values: the result of a call, an optional string, the Python value      *)
(* json.load returns, the persisted document.                              *)
(***************************************************************************)
Return(v) == [kind |-> "return", exc |-> "", value |-> v]

Raise(e) == [kind |-> "raise", exc |-> e, value |-> <<>>]

NoResult == [kind |-> "none", exc |-> "", value |-> <<>>]

\* None, and a string held where None may be held.
None == <<>>

Some(s) == <<s>>

PyList(items) == [type |-> "list", items |-> items]

PyEmptyDict == [type |-> "dict", items |-> <<>>]

PyInt == [type |-> "int", items |-> <<>>]

\* tasks.json: absent, not openable, not JSON (an empty file included), a
\* JSON list of task records, the JSON object {} or a JSON number.
Document(kind, records) == [kind |-> kind, tasks |-> records]

AbsentDocument == Document("absent", <<>>)

Task(id, desc, status) == [id |-> id, task |-> desc, status |-> status]

Callers == {1, 2}

VARIABLES
    file,            \* the persisted document tasks.json
    GEMINI_API_KEY,  \* TRUE when GOOGLE_API_KEY is set in the environment
    pc,              \* per caller: where its call stands
    entry,           \* per caller: the function it called
    user_input,      \* per caller: ai_agent's argument
    intent,          \* per caller: ai_agent's classified intent
    tasks,           \* per caller: the tool's local list
    task_desc,       \* per caller: add_task's argument
    task_id,         \* per caller: add_task's new id, complete_task's argument
    tool_output,     \* per caller: ai_agent's tool_output
    result,          \* per caller: what the call returned or raised
    saves,           \* per caller: save_tasks calls made by the current call
    file0,           \* per caller: the document when the current call began
    lastId           \* the id assigned by the last add_task that returned, 0 if none

vars ==
    <<file, GEMINI_API_KEY, pc, entry, user_input, intent, tasks, task_desc, task_id,
      tool_output, result, saves, file0, lastId>>

(***************************************************************************)
(* JSON task storage.                                                      *)
(***************************************************************************)
\* load_tasks: FileNotFoundError and json.JSONDecodeError give [], any other
\* failure of open propagates, and any JSON value is returned as it is.
load_tasks(f) ==
    CASE f.kind = "absent" -> Return(PyList(<<>>))
      [] f.kind = "invalid" -> Return(PyList(<<>>))
      [] f.kind = "unreadable" -> Raise("PermissionError")
      [] f.kind = "list" -> Return(PyList(f.tasks))
      [] f.kind = "object" -> Return(PyEmptyDict)
      [] f.kind = "number" -> Return(PyInt)

\* What the storage does with a write: "ok", or open fails and the document
\* is untouched, or the write fails after open has truncated the document.
SaveOutcomes == {"ok", "open_fails", "write_fails"}

\* A save that keeps the records of the document whose ids the saved list
\* does not have.
save_tasks_Merging(f, ts, outcome) ==
    CASE outcome = "ok" ->
             Document("list",
                      ts \o SelectSeq(f.tasks,
                                      LAMBDA t : \A i \in 1..Len(ts) : ts[i].id # t.id))
      [] outcome = "open_fails" -> f
      [] outcome = "write_fails" -> Document("invalid", <<>>)

\* A save that writes nothing.
save_tasks_NotWritten(f, ts, outcome) == f

\* save_tasks: the document after the call.
save_tasks(f, ts, outcome) ==
    CASE outcome = "ok" -> Document("list", ts)
      [] outcome = "open_fails" -> f
      [] outcome = "write_fails" -> Document("invalid", <<>>)

(***************************************************************************)
(* Tools.                                                                  *)
(***************************************************************************)
RECURSIVE MaxOf(_, _)
MaxOf(ids, default) ==
    IF ids = <<>> THEN default
    ELSE LET m == MaxOf(Tail(ids), default)
         IN  IF ids = <<Head(ids)>> THEN Head(ids)
             ELSE IF Head(ids) > m THEN Head(ids) ELSE m

Ids(ts) == [i \in 1..Len(ts) |-> ts[i].id]

\* The greatest id, not incremented.
NextId_NoIncrement(ts) == MaxOf(Ids(ts), 1)

\* add_task, line 86: the next available id.
NextId(ts) == MaxOf(Ids(ts), 0) + 1

\* add_task, line 87.
WithNewTask(ts, id, desc) == Append(ts, Task(id, desc, "pending"))

\* add_task, line 89.
TaskAddedMsg(desc, id) == TaskAddedPrefix \o desc \o IdOpen \o IntToStr(id) \o IdClose

\* add_task up to the call of save_tasks, on the value load_tasks returned:
\* iterating a number raises TypeError, {} has no append.
AddTaskBegin(loaded, desc) ==
    IF loaded.kind = "raise" THEN [raised |-> TRUE, exc |-> loaded.exc, tasks |-> <<>>, id |-> 0]
    ELSE IF loaded.value.type = "int"
         THEN [raised |-> TRUE, exc |-> "TypeError", tasks |-> <<>>, id |-> 0]
    ELSE IF loaded.value.type = "dict"
         THEN [raised |-> TRUE, exc |-> "AttributeError", tasks |-> <<>>, id |-> 0]
    ELSE LET ts == loaded.value.items
             id == NextId(ts)
         IN  [raised |-> FALSE, exc |-> "", tasks |-> WithNewTask(ts, id, desc), id |-> id]

\* complete_task's argument: an int, or a string for int() to convert.
IntArg(n) == [type |-> "int", int |-> n, str |-> <<>>]

StrArg(s) == [type |-> "str", int |-> 0, str |-> s]

\* int(task_id), line 95.
ArgParses(a) == a.type = "int" \/ IntParses(Strip(a.str))

ArgValue(a) == IF a.type = "int" THEN a.int ELSE IntValue(Strip(a.str))

\* The first record, whatever its id.
FirstWithId_AnyRecord(ts, id) == IF ts # <<>> THEN 1 ELSE 0

\* complete_task, lines 99-100: the index of the first record with the id, 0
\* when there is none.
FirstWithId(ts, id) ==
    IF \E i \in 1..Len(ts) : ts[i].id = id
    THEN CHOOSE i \in 1..Len(ts) : ts[i].id = id /\ \A j \in 1..(i - 1) : ts[j].id # id
    ELSE 0

\* A status that is toggled.
MarkCompleted_Toggle(ts, i) ==
    [ts EXCEPT ![i].status = IF @ = "completed" THEN "pending" ELSE "completed"]

\* complete_task, line 101.
MarkCompleted(ts, i) == [ts EXCEPT ![i].status = "completed"]

\* complete_task, line 103.
MarkedMsg(id, desc) ==
    MarkedPrefix \o IntToStr(id) \o MarkedOpen \o desc \o MarkedClose

\* complete_task, line 104.
NotFoundMsg(id) == TaskIdPrefix \o IntToStr(id) \o NotFoundSuffix

\* complete_task up to the call of save_tasks or to its return without one.
\* step is "raise", "return" (value is returned) or "save" (tasks is to be
\* saved); id is the value of the variable task_id, an int once line 95 has
\* converted it.
CompleteTaskBegin(loaded, a) ==
    LET done(step, exc, value, ts, id) ==
            [step |-> step, exc |-> exc, value |-> value, tasks |-> ts, id |-> id]
    IN  IF loaded.kind = "raise" THEN done("raise", loaded.exc, <<>>, <<>>, a)
        ELSE IF ~ArgParses(a) THEN done("return", "", NotNumberMsg, <<>>, a)
        ELSE IF loaded.value.type = "int"
             THEN done("raise", "TypeError", <<>>, <<>>, IntArg(ArgValue(a)))
        ELSE LET ts == loaded.value.items
                 id == ArgValue(a)
                 i == FirstWithId(ts, id)
             IN  IF i = 0 THEN done("return", "", NotFoundMsg(id), <<>>, IntArg(id))
                 ELSE done("save", "", <<>>, MarkCompleted(ts, i), IntArg(id))

StatusText(status) == IF status = "completed" THEN TextCompleted ELSE TextPending

\* list_tasks, lines 115-116: the line of one record.
TaskLine(t) ==
    IntToStr(t.id) \o <<".", " ">>
    \o (IF t.status = "completed" THEN IconCompleted ELSE IconPending)
    \o <<" ">> \o t.task \o <<" ", "<emdash>", " ">> \o Upper(StatusText(t.status)) \o <<"\n">>

RECURSIVE TaskLines(_)
TaskLines(ts) == IF ts = <<>> THEN <<>> ELSE TaskLine(Head(ts)) \o TaskLines(Tail(ts))

\* A listing without the header line.
list_tasks_NoHeader(loaded) ==
    IF loaded.kind = "raise" THEN loaded
    ELSE IF loaded.value.type = "int" THEN Raise("TypeError")
    ELSE IF loaded.value.items = <<>> THEN Return(NoTasksMsg)
    ELSE Return(TaskLines(loaded.value.items))

\* list_tasks on the value load_tasks returned.
list_tasks(loaded) ==
    IF loaded.kind = "raise" THEN loaded
    ELSE IF loaded.value.type = "int" THEN Raise("TypeError")
    ELSE IF loaded.value.items = <<>> THEN Return(NoTasksMsg)
    ELSE Return(ListHeader \o TaskLines(loaded.value.items))

(***************************************************************************)
(* Intent classifier.                                                      *)
(***************************************************************************)
classify_intent(message) ==
    LET msg == Lower(message)
    IN  IF \/ Contains(msg, KwAddTask) \/ Contains(msg, KwRemember)
           \/ Contains(msg, KwTodo) \/ Contains(msg, KwNewTask)
        THEN "add_task"
        ELSE IF \/ Contains(msg, KwComplete) \/ Contains(msg, KwDone)
                \/ Contains(msg, KwFinish) \/ Contains(msg, KwMarkAsComplete)
        THEN "complete_task"
        ELSE IF \/ Contains(msg, KwList) \/ Contains(msg, KwShowTasks)
                \/ Contains(msg, KwWhatAreMyTasks)
        THEN "list_tasks"
        ELSE "chat"

(***************************************************************************)
(* The agent.                                                              *)
(***************************************************************************)
\* ai_agent, line 156.
ExtractTaskDesc(input) == Strip(Remove(Remove(Remove(input, KwAddTask), KwRemember), KwTodo))

\* ai_agent, line 161: the tokens that pass isdigit().
DigitTokens(input) == SelectSeq(Split(input), IsDigit)

\* Line 161 raises ValueError when int() refuses a token isdigit() accepted.
NumsRaises(input) == \E i \in 1..Len(DigitTokens(input)) : ~IntParses(DigitTokens(input)[i])

Nums(input) == [i \in 1..Len(DigitTokens(input)) |-> IntValue(DigitTokens(input)[i])]

\* What requests.post and the service answer.
RemoteOutcomes ==
    {"transport_failure", "http_error", "ok", "no_candidates_key", "empty_candidates",
     "not_json"}

\* call_gemini: without a key no request is made; requests.post is outside
\* any try; only KeyError is caught around the extraction of the text.
call_gemini(key, remote) ==
    IF ~key THEN Return(MissingKeyMsg)
    ELSE CASE remote = "transport_failure" -> Raise("ConnectionError")
           [] remote = "http_error" -> Return(ApiErrorPrefix \o ErrorBody)
           [] remote = "ok" -> Return(ReplyText)
           [] remote = "no_candidates_key" -> Return(ParseErrorMsg)
           [] remote = "empty_candidates" -> Raise("IndexError")
           [] remote = "not_json" -> Raise("JSONDecodeError")

\* ai_agent, lines 190-193.
AgentReply(gemini_response) ==
    IF gemini_response.kind = "raise" THEN gemini_response
    ELSE IF StartsWith(gemini_response.value, ErrorMarker)
         THEN Return(InternalErrorPrefix \o gemini_response.value)
         ELSE gemini_response

(***************************************************************************)
(* The calls the model makes.                                              *)
(***************************************************************************)
Messages ==
    {MsgAddBuyMilk, MsgNewTaskBuyMilk, MsgTodoCap, MsgTodo, MsgRememberTwoLines, MsgDone1,
     MsgComplete2, MsgMarkComplete, MsgDone7, MsgDoneSup2, MsgList, MsgHi}

\* Arguments of add_task and complete_task when they are called directly.
Descriptions == {DescBuyMilk}

TaskIdArgs == {IntArg(1), IntArg(2), StrArg(<<"2">>), StrArg(<<"x">>)}

\* The number of records of the document.
Size(f) == Len(f.tasks)

(***************************************************************************)
(* Initial states: no call is in progress.  The document is absent or an   *)
(* empty list; InitAnyDocument starts from every kind of document.         *)
(***************************************************************************)
InitCallers ==
    /\ pc = [p \in Callers |-> "idle"]
    /\ entry = [p \in Callers |-> ""]
    /\ user_input = [p \in Callers |-> <<>>]
    /\ intent = [p \in Callers |-> ""]
    /\ tasks = [p \in Callers |-> <<>>]
    /\ task_desc = [p \in Callers |-> <<>>]
    /\ task_id = [p \in Callers |-> IntArg(0)]
    /\ tool_output = [p \in Callers |-> None]
    /\ result = [p \in Callers |-> NoResult]
    /\ saves = [p \in Callers |-> 0]
    /\ file0 = [p \in Callers |-> AbsentDocument]
    /\ lastId = 0

Init ==
    /\ file \in {AbsentDocument, Document("list", <<>>)}
    /\ GEMINI_API_KEY \in BOOLEAN
    /\ InitCallers

Documents ==
    {AbsentDocument, Document("unreadable", <<>>), Document("invalid", <<>>),
     Document("object", <<>>), Document("number", <<>>), Document("list", <<>>),
     Document("list", <<Task(1, DescBuyMilk, "pending")>>)}

InitAnyDocument ==
    /\ file \in Documents
    /\ GEMINI_API_KEY \in BOOLEAN
    /\ InitCallers

(***************************************************************************)
(* Steps of a call.                                                        *)
(***************************************************************************)
\* The call of caller p begins: fn is the function called.
Begins(p, fn) ==
    /\ pc[p] = "idle"
    /\ entry' = [entry EXCEPT ![p] = fn]
    /\ saves' = [saves EXCEPT ![p] = 0]
    /\ file0' = [file0 EXCEPT ![p] = file]

\* The tool called by fn returns v: to ai_agent, which goes on to the remote
\* call, or to the caller.
ToolReturns(p, fn, v) ==
    IF fn = "ai_agent"
    THEN /\ pc' = [pc EXCEPT ![p] = "call_gemini"]
         /\ tool_output' = [tool_output EXCEPT ![p] = Some(v)]
         /\ UNCHANGED result
    ELSE /\ pc' = [pc EXCEPT ![p] = "done"]
         /\ result' = [result EXCEPT ![p] = Return(v)]
         /\ UNCHANGED tool_output

\* An exception leaves the call: nothing in the source catches it.
Raises(p, exc) ==
    /\ pc' = [pc EXCEPT ![p] = "done"]
    /\ result' = [result EXCEPT ![p] = Raise(exc)]
    /\ UNCHANGED tool_output

\* add_task(desc), lines 84-87.
BeginAddTask(p, fn, desc) ==
    LET b == AddTaskBegin(load_tasks(file), desc)
    IN  /\ Size(file) < MaxTasks
        /\ task_desc' = [task_desc EXCEPT ![p] = desc]
        /\ IF b.raised
           THEN /\ Raises(p, b.exc)
                /\ UNCHANGED <<tasks, task_id>>
           ELSE /\ pc' = [pc EXCEPT ![p] = "add_task_save"]
                /\ tasks' = [tasks EXCEPT ![p] = b.tasks]
                /\ task_id' = [task_id EXCEPT ![p] = IntArg(b.id)]
                /\ UNCHANGED <<result, tool_output>>
        /\ UNCHANGED <<file, GEMINI_API_KEY, lastId>>

\* complete_task(a), lines 93-101 and 104.
BeginCompleteTask(p, fn, a) ==
    LET b == CompleteTaskBegin(load_tasks(file), a)
    IN  /\ task_id' = [task_id EXCEPT ![p] = b.id]
        /\ CASE b.step = "raise" -> Raises(p, b.exc) /\ UNCHANGED tasks
             [] b.step = "return" -> ToolReturns(p, fn, b.value) /\ UNCHANGED tasks
             [] b.step = "save" ->
                    /\ pc' = [pc EXCEPT ![p] = "complete_task_save"]
                    /\ tasks' = [tasks EXCEPT ![p] = b.tasks]
                    /\ UNCHANGED <<result, tool_output>>
        /\ UNCHANGED <<file, GEMINI_API_KEY, task_desc, lastId>>

\* A list_tasks that writes the list it loaded back to the document.
RunListTasks_Saving(p, fn) ==
    LET r == list_tasks(load_tasks(file))
    IN  /\ IF r.kind = "raise" THEN Raises(p, r.exc) ELSE ToolReturns(p, fn, r.value)
        /\ file' = IF r.kind = "raise" THEN file ELSE Document("list", file.tasks)
        /\ UNCHANGED <<GEMINI_API_KEY, tasks, task_desc, task_id, lastId>>

\* list_tasks(), lines 108-117.
RunListTasks(p, fn) ==
    LET r == list_tasks(load_tasks(file))
    IN  /\ IF r.kind = "raise" THEN Raises(p, r.exc) ELSE ToolReturns(p, fn, r.value)
        /\ UNCHANGED <<file, GEMINI_API_KEY, tasks, task_desc, task_id, lastId>>

\* add_task(desc) called directly.
AddTask(p, desc) ==
    /\ Begins(p, "add_task")
    /\ BeginAddTask(p, "add_task", desc)
    /\ UNCHANGED <<user_input, intent>>

\* complete_task(a) called directly.
CompleteTask(p, a) ==
    /\ Begins(p, "complete_task")
    /\ BeginCompleteTask(p, "complete_task", a)
    /\ UNCHANGED <<user_input, intent>>

\* list_tasks() called directly.
ListTasks(p) ==
    /\ Begins(p, "list_tasks")
    /\ RunListTasks(p, "list_tasks")
    /\ UNCHANGED <<user_input, intent>>

\* add_task, lines 88-89: save_tasks and the confirmation.
AddTaskSave(p, outcomes) ==
    /\ pc[p] = "add_task_save"
    /\ \E o \in outcomes :
          /\ file' = save_tasks(file, tasks[p], o)
          /\ IF o = "ok"
             THEN /\ ToolReturns(p, entry[p], TaskAddedMsg(task_desc[p], task_id[p].int))
                  /\ lastId' = task_id[p].int
             ELSE /\ Raises(p, "OSError")
                  /\ UNCHANGED lastId
    /\ saves' = [saves EXCEPT ![p] = @ + 1]
    /\ UNCHANGED <<GEMINI_API_KEY, entry, user_input, intent, tasks, task_desc, task_id, file0>>

\* complete_task, lines 102-103: save_tasks and the confirmation.
CompleteTaskSave(p, outcomes) ==
    /\ pc[p] = "complete_task_save"
    /\ \E o \in outcomes :
          /\ file' = save_tasks(file, tasks[p], o)
          /\ IF o = "ok"
             THEN LET i == FirstWithId(tasks[p], task_id[p].int)
                  IN  ToolReturns(p, entry[p], MarkedMsg(task_id[p].int, tasks[p][i].task))
             ELSE Raises(p, "OSError")
    /\ saves' = [saves EXCEPT ![p] = @ + 1]
    /\ UNCHANGED <<GEMINI_API_KEY, entry, user_input, intent, tasks, task_desc, task_id,
                   file0, lastId>>

\* ai_agent(m), lines 148-151.  A message that adds a task is not sent once
\* the document holds MaxTasks records.
AiAgent(p, m) ==
    /\ Begins(p, "ai_agent")
    /\ classify_intent(m) = "add_task" => Size(file) < MaxTasks
    /\ pc' = [pc EXCEPT ![p] = "route"]
    /\ user_input' = [user_input EXCEPT ![p] = m]
    /\ intent' = [intent EXCEPT ![p] = classify_intent(m)]
    /\ UNCHANGED <<file, GEMINI_API_KEY, tasks, task_desc, task_id, tool_output, result, lastId>>

\* ai_agent, lines 154-157.
RouteAddTask(p) ==
    /\ pc[p] = "route"
    /\ intent[p] = "add_task"
    /\ BeginAddTask(p, "ai_agent", ExtractTaskDesc(user_input[p]))
    /\ UNCHANGED <<entry, user_input, intent, saves, file0>>

\* ai_agent, lines 159-165.
RouteCompleteTask(p) ==
    /\ pc[p] = "route"
    /\ intent[p] = "complete_task"
    /\ IF NumsRaises(user_input[p])
       THEN /\ Raises(p, "ValueError")
            /\ UNCHANGED <<file, GEMINI_API_KEY, tasks, task_desc, task_id, lastId>>
       ELSE IF Nums(user_input[p]) # <<>>
       THEN BeginCompleteTask(p, "ai_agent", IntArg(Nums(user_input[p])[1]))
       ELSE /\ pc' = [pc EXCEPT ![p] = "call_gemini"]
            /\ tool_output' = [tool_output EXCEPT ![p] = Some(WhichTaskMsg)]
            /\ UNCHANGED <<file, GEMINI_API_KEY, tasks, task_desc, task_id, result, lastId>>
    /\ UNCHANGED <<entry, user_input, intent, saves, file0>>

\* ai_agent, lines 167-168.
RouteListTasks(p) ==
    /\ pc[p] = "route"
    /\ intent[p] = "list_tasks"
    /\ RunListTasks(p, "ai_agent")
    /\ UNCHANGED <<entry, user_input, intent, saves, file0>>

\* ai_agent with the intent chat: no tool is called, tool_output stays None.
RouteChat(p) ==
    /\ pc[p] = "route"
    /\ intent[p] = "chat"
    /\ pc' = [pc EXCEPT ![p] = "call_gemini"]
    /\ UNCHANGED <<file, GEMINI_API_KEY, entry, user_input, intent, tasks, task_desc, task_id,
                   tool_output, result, saves, file0, lastId>>

\* ai_agent, lines 187-193: the remote call and the reply.
CallGemini(p) ==
    /\ pc[p] = "call_gemini"
    /\ \E remote \in RemoteOutcomes :
          result' = [result EXCEPT ![p] = AgentReply(call_gemini(GEMINI_API_KEY, remote))]
    /\ pc' = [pc EXCEPT ![p] = "done"]
    /\ UNCHANGED <<file, GEMINI_API_KEY, entry, user_input, intent, tasks, task_desc, task_id,
                   tool_output, saves, file0, lastId>>

\* The caller has the result; the locals of the call are gone.
Finish(p) ==
    /\ pc[p] = "done"
    /\ pc' = [pc EXCEPT ![p] = "idle"]
    /\ entry' = [entry EXCEPT ![p] = ""]
    /\ user_input' = [user_input EXCEPT ![p] = <<>>]
    /\ intent' = [intent EXCEPT ![p] = ""]
    /\ tasks' = [tasks EXCEPT ![p] = <<>>]
    /\ task_desc' = [task_desc EXCEPT ![p] = <<>>]
    /\ task_id' = [task_id EXCEPT ![p] = IntArg(0)]
    /\ tool_output' = [tool_output EXCEPT ![p] = None]
    /\ result' = [result EXCEPT ![p] = NoResult]
    /\ saves' = [saves EXCEPT ![p] = 0]
    /\ file0' = [file0 EXCEPT ![p] = AbsentDocument]
    /\ UNCHANGED <<file, GEMINI_API_KEY, lastId>>

(***************************************************************************)
(* Specifications.                                                         *)
(***************************************************************************)
\* The steps of the Task Store operations of caller p.
ToolStep(p, outcomes) ==
    \/ \E d \in Descriptions : AddTask(p, d)
    \/ \E a \in TaskIdArgs : CompleteTask(p, a)
    \/ ListTasks(p)
    \/ AddTaskSave(p, outcomes)
    \/ CompleteTaskSave(p, outcomes)
    \/ Finish(p)

\* The steps of ai_agent for caller p.
AgentStep(p) ==
    \/ \E m \in Messages : AiAgent(p, m)
    \/ RouteAddTask(p)
    \/ RouteCompleteTask(p)
    \/ RouteListTasks(p)
    \/ RouteChat(p)
    \/ CallGemini(p)

\* One caller, one call at a time, a storage that works.
Next == ToolStep(1, {"ok"}) \/ AgentStep(1)

Spec == Init /\ [][Next]_vars

\* One caller, any document to begin with, a storage whose writes may fail.
NextFaulty == ToolStep(1, SaveOutcomes) \/ AgentStep(1)

SpecFaulty == InitAnyDocument /\ [][NextFaulty]_vars

\* Two callers whose Task Store operations interleave at the reads and
\* writes of the document.
NextConcurrent == \E p \in Callers : ToolStep(p, {"ok"})

SpecConcurrent == Init /\ [][NextConcurrent]_vars

(***************************************************************************)
(* Properties.                                                             *)
(***************************************************************************)
\* The tool called by caller p has returned out: ai_agent holds it in
\* tool_output, a direct caller in result.
ToolReturned(p, out) ==
    IF entry[p] = "ai_agent"
    THEN pc[p] \in {"call_gemini", "done"} /\ tool_output[p] = Some(out)
    ELSE pc[p] = "done" /\ result[p].kind = "return" /\ result[p].value = out

\* Caller p called add_task, directly or through ai_agent, and it returned.
AddTaskReturned(p) ==
    \/ pc[p] = "done" /\ entry[p] = "add_task" /\ result[p].kind = "return"
    \/ /\ entry[p] = "ai_agent" /\ intent[p] = "add_task"
       /\ pc[p] \in {"call_gemini", "done"} /\ tool_output[p] # None

\* Caller p called complete_task with an int, directly or through ai_agent,
\* and it ended (task_id holds the int).
CompleteTaskEnded(p) ==
    \/ pc[p] = "done" /\ entry[p] = "complete_task" /\ task_id[p].type = "int"
    \/ /\ entry[p] = "ai_agent" /\ intent[p] = "complete_task"
       /\ pc[p] \in {"call_gemini", "done"}
       /\ ~NumsRaises(user_input[p]) /\ Nums(user_input[p]) # <<>>

\* Caller p called list_tasks, directly or through ai_agent, and it returned.
ListTasksEnded(p) ==
    \/ pc[p] = "done" /\ entry[p] = "list_tasks" /\ result[p].kind = "return"
    \/ /\ entry[p] = "ai_agent" /\ intent[p] = "list_tasks"
       /\ pc[p] \in {"call_gemini", "done"} /\ tool_output[p] # None

\* What the tool called by caller p returned, once it has.
ToolOutput(p) == IF entry[p] = "ai_agent" THEN tool_output[p][1] ELSE result[p].value

HasId(f, id) == \E i \in 1..Size(f) : f.tasks[i].id = id

\* C1: starting from an absent or empty collection, the ids of the
\* collection are pairwise distinct, and every add_task assigns one more than
\* the greatest id of the collection, 1 when it is empty: an id greater than
\* the one the add_task before it assigned.
C1_IdsDistinctAndIncreasing ==
    /\ \A i, j \in 1..Size(file) : i # j => file.tasks[i].id # file.tasks[j].id
    /\ \A p \in Callers :
          pc[p] = "add_task_save" =>
             /\ task_id[p].int > lastId
             /\ IF Size(file) = 0 THEN task_id[p].int = 1
                ELSE /\ \A i \in 1..Size(file) : file.tasks[i].id < task_id[p].int
                     /\ \E i \in 1..Size(file) : file.tasks[i].id + 1 = task_id[p].int
             /\ tasks[p] = Append(file.tasks, Task(task_id[p].int, task_desc[p], "pending"))
    /\ \A p \in Callers :
          AddTaskReturned(p) =>
             /\ lastId = task_id[p].int
             /\ file.tasks[Size(file)].id = lastId
             /\ Size(file) = Size(file0[p]) + 1

\* Two tasks were added and the first of them completed.
C1_Witness ==
    /\ Size(file) = 2
    /\ file.tasks[1].status = "completed"
    /\ AddTaskReturned(1)

\* C2: a record is created pending, and the only change of a record's status
\* is from pending to completed: no step sets a completed record back.
C2_StatusOnlyPendingToCompleted ==
    [][/\ Size(file) <= Size(file')
       /\ \A i \in 1..Size(file) :
             /\ file'.tasks[i].id = file.tasks[i].id
             /\ file'.tasks[i].status \in {file.tasks[i].status, "completed"}
             /\ file.tasks[i].status = "completed" => file'.tasks[i].status = "completed"
       /\ \A i \in (Size(file) + 1)..Size(file') : file'.tasks[i].status = "pending"]_vars

\* A task was added to a collection whose first task was already completed.
C2_Witness ==
    /\ AddTaskReturned(1)
    /\ Size(file0[1]) >= 1
    /\ file0[1].tasks[1].status = "completed"
    /\ file.tasks[1].status = "completed"

\* C3: with two callers, a save writes the whole list its caller loaded and
\* changed, whatever the other caller has written since: the last writer
\* wins.
C3_LastWriterWins ==
    [][\A p \in Callers :
          (pc[p] \in {"add_task_save", "complete_task_save"} /\ pc'[p] = "done") =>
             /\ file' = Document("list", tasks[p])
             /\ result'[p].kind = "return"]_vars

\* Both callers added a task to the same document and both got the
\* confirmation, and the document holds one task more, not two: an update is
\* lost.
C3_Witness ==
    /\ \A p \in Callers :
          /\ pc[p] = "done" /\ entry[p] = "add_task" /\ result[p].kind = "return"
          /\ StartsWith(result[p].value, TaskAddedPrefix)
    /\ file0[1] = file0[2]
    /\ Size(file) = Size(file0[1]) + 1

\* C4: the remote call of ai_agent never raises: whatever requests.post and
\* the service answer, ai_agent returns a string, and an error of the service
\* the wrapped message.
C4_RemoteErrorsNeverEscape ==
    [][\A p \in Callers :
          (pc[p] = "call_gemini" /\ pc'[p] = "done") => result'[p].kind = "return"]_vars

\* C5: on a document that is absent, unreadable or not a list of records,
\* no Task Store operation raises because of the read, and list_tasks
\* reports no tasks.
C5_LoadNeverRaises ==
    \A p \in Callers :
       (/\ pc[p] = "done"
        /\ entry[p] \in {"add_task", "complete_task", "list_tasks"}
        /\ file0[p].kind # "list") =>
          /\ result[p].kind = "raise" => result[p].exc = "OSError"
          /\ entry[p] = "list_tasks" => result[p] = Return(NoTasksMsg)
          /\ LET r == load_tasks(file0[p])
             IN  r.kind = "return" /\ r.value.type = "list" /\ r.value.items = <<>>

\* C6: a call of ai_agent saves at most once, and only for the intents
\* add_task and complete_task; the document changes only by that save; with
\* the intent list_tasks or chat, or complete_task and no all-digit token,
\* the document is the one the call began with.
C6_AtMostOneSave ==
    \A p \in Callers :
       entry[p] = "ai_agent" =>
          /\ saves[p] <= 1
          /\ saves[p] = 1 =>
                /\ intent[p] \in {"add_task", "complete_task"}
                /\ intent[p] = "complete_task" =>
                      \E i \in 1..Len(Split(user_input[p])) : IsDigit(Split(user_input[p])[i])
          /\ file # file0[p] => saves[p] = 1
          /\ (\/ intent[p] \in {"list_tasks", "chat"}
              \/ /\ intent[p] = "complete_task"
                 /\ \A i \in 1..Len(Split(user_input[p])) : ~IsDigit(Split(user_input[p])[i]))
                => file = file0[p] /\ saves[p] = 0

\* ai_agent ended on a message to complete a task that names no number,
\* with tasks in the collection.
C6_Witness ==
    /\ pc[1] = "done"
    /\ entry[1] = "ai_agent"
    /\ user_input[1] = MsgMarkComplete
    /\ intent[1] = "complete_task"
    /\ Size(file) >= 1
    /\ result[1].kind = "return"

TaskId7NotFoundText ==
    <<"T", "a", "s", "k", " ", "I", "D", " ", "7", " ", "n", "o", "t", " ", "f", "o", "u", "n",
      "d", ".">>

\* C7: complete_task with an id no record has returns the not-found message
\* and leaves the document as it was, without a save.
C7_AbsentIdIsNoOp ==
    \A p \in Callers :
       (CompleteTaskEnded(p) /\ ~HasId(file0[p], task_id[p].int)) =>
          /\ ToolReturned(p, TaskIdPrefix \o IntToStr(task_id[p].int) \o NotFoundSuffix)
          /\ task_id[p].int = 7 => ToolReturned(p, TaskId7NotFoundText)
          /\ file = file0[p]
          /\ saves[p] = 0

\* complete_task(7) ended on a collection of two tasks.
C7_Witness ==
    /\ CompleteTaskEnded(1)
    /\ task_id[1].int = 7
    /\ Size(file0[1]) = 2
    /\ pc[1] = "done"

\* The number of lines of a text: its line breaks, and one more when
\* characters follow the last of them.
Lines(s) == CountChar(s, "\n") + (IF s # <<>> /\ s[Len(s)] # "\n" THEN 1 ELSE 0)

RECURSIVE LineBreaksIn(_)
LineBreaksIn(ts) ==
    IF ts = <<>> THEN 0 ELSE CountChar(Head(ts).task, "\n") + LineBreaksIn(Tail(ts))

\* The i-th of the pieces the positions cut (each the last character of a
\* piece) divide the text into, after the first `from` characters.
Piece(s, from, cut, i) == SubSeq(s, (IF i = 1 THEN from ELSE cut[i - 1]) + 1, cut[i])

\* out is the header followed by one entry for each record of ts, in the
\* order of ts: each entry ends with a line break, begins with the id of its
\* record and contains its description.
IsListingOf(out, ts) ==
    /\ StartsWith(out, ListHeader)
    /\ \E cut \in [1..Len(ts) -> {k \in 1..Len(out) : out[k] = "\n"}] :
          /\ cut[Len(ts)] = Len(out)
          /\ \A i \in 1..Len(ts) :
                /\ (IF i = 1 THEN Len(ListHeader) ELSE cut[i - 1]) < cut[i]
                /\ StartsWith(Piece(out, Len(ListHeader), cut, i),
                              IntToStr(ts[i].id) \o <<".", " ">>)
                /\ Contains(Piece(out, Len(ListHeader), cut, i), ts[i].task)

\* C8, as stated: list_tasks on a collection of n > 0 records returns n
\* lines.
C8_LineCountEqualsSize ==
    \A p \in Callers :
       (ListTasksEnded(p) /\ Size(file) > 0) => Lines(ToolOutput(p)) = Size(file)

\* C8, amended: list_tasks on an empty collection returns the no-tasks
\* message; on n > 0 records it returns the header line followed by one
\* entry for each record, in collection order, each entry ending with a line
\* break and containing the id and the description of its record: n + 1
\* lines, and one more for every line break inside a description.
C8_HeaderThenOneEntryPerTask ==
    \A p \in Callers :
       ListTasksEnded(p) =>
          IF Size(file) = 0 THEN ToolOutput(p) = NoTasksMsg
          ELSE /\ IsListingOf(ToolOutput(p), file.tasks)
               /\ Lines(ToolOutput(p)) = Size(file) + 1 + LineBreaksIn(file.tasks)

\* list_tasks returned the listing of two tasks, the first of them
\* completed.
C8_Witness ==
    /\ pc[1] = "done"
    /\ entry[1] = "list_tasks"
    /\ result[1].kind = "return"
    /\ Size(file) = 2
    /\ file.tasks[1].status = "completed"

\* s.replace(t, "") without regard to case.
RECURSIVE RemoveIgnoringCase(_, _)
RemoveIgnoringCase(s, t) ==
    IF Len(s) < Len(t) THEN s
    ELSE IF MatchesAt(Lower(s), t, 1) THEN RemoveIgnoringCase(SubSeq(s, Len(t) + 1, Len(s)), t)
    ELSE <<Head(s)>> \o RemoveIgnoringCase(Tail(s), t)

\* The message without the trigger phrases of add_task, trimmed.
WithoutTriggers(input) ==
    Strip(RemoveIgnoringCase(RemoveIgnoringCase(RemoveIgnoringCase(RemoveIgnoringCase(
        input, KwAddTask), KwRemember), KwTodo), KwNewTask))

\* C9: for an input classified add_task, ai_agent appends one pending record
\* whose description is the input without the trigger phrases, trimmed.
C9_DescriptionWithoutTriggers ==
    \A p \in Callers :
       (entry[p] = "ai_agent" /\ AddTaskReturned(p)) =>
          /\ Size(file) = Size(file0[p]) + 1
          /\ SubSeq(file.tasks, 1, Size(file0[p])) = file0[p].tasks
          /\ file.tasks[Size(file)].status = "pending"
          /\ file.tasks[Size(file)].task = WithoutTriggers(user_input[p])

\* The reply of ai_agent to an error-marked answer of call_gemini.
IsInternalError(r) == r.kind = "return" /\ StartsWith(r.value, InternalErrorPrefix)

\* C10: the tool of ai_agent has saved before the remote call is made, and
\* nothing undoes the save: when the remote call is reached after add_task
\* the document holds the new record, after complete_task of an id of the
\* collection the record is completed, and so it is when ai_agent returns the
\* internal error; without an API key every reply is that internal error,
\* and no reply is an error-marked string left unwrapped.
C10_MutationSurvivesRemoteError ==
    \A p \in Callers :
       (/\ entry[p] = "ai_agent"
        /\ pc[p] = "call_gemini" \/ (pc[p] = "done" /\ result[p].kind = "return")) =>
          /\ intent[p] = "add_task" =>
                /\ saves[p] = 1
                /\ Size(file) = Size(file0[p]) + 1
                /\ file.tasks[Size(file)].task = task_desc[p]
                /\ file.tasks[Size(file)].status = "pending"
          /\ (intent[p] = "complete_task" /\ CompleteTaskEnded(p)
                /\ HasId(file0[p], task_id[p].int)) =>
                /\ saves[p] = 1
                /\ \E i \in 1..Size(file) :
                      file.tasks[i].id = task_id[p].int /\ file.tasks[i].status = "completed"
          /\ (pc[p] = "done" /\ ~GEMINI_API_KEY) =>
                result[p].value = InternalErrorPrefix \o MissingKeyMsg
          /\ pc[p] = "done" =>
                /\ ~StartsWith(result[p].value, ErrorMarker)
                /\ \/ result[p].value = ReplyText
                   \/ \E marked \in {MissingKeyMsg, ApiErrorPrefix \o ErrorBody, ParseErrorMsg} :
                         result[p].value = InternalErrorPrefix \o marked

\* The same add message was sent again after the internal error: ai_agent
\* answers with the internal error once more and the collection holds two
\* records with that description.
C10_Witness ==
    /\ pc[1] = "done"
    /\ entry[1] = "ai_agent"
    /\ intent[1] = "add_task"
    /\ IsInternalError(result[1])
    /\ Size(file) = 2
    /\ file.tasks[1].task = file.tasks[2].task
    /\ file.tasks[2].task = task_desc[1]

=============================================================================
